---- MODULE Spec2Model ----
(***************************************************************************)
(* spark-proximity: the match ranker find_potential_matches, the           *)
(* haversine function calculate_distance it calls, and the client          *)
(* operations that write the tables it reads (profiles, user_locations,    *)
(* user_interests); the hooks useMatching, useRealtimeConnections and      *)
(* useMessages with the tables connections and messages; the pages         *)
(* Connections, Profile and Discovery.                                     *)
(*                                                                         *)
(* Numbers.  SQL NUMERIC and double precision values are held as integers  *)
(* in fixed point:                                                         *)
(*   - coordinates in units of 1/CoordScale degree,                        *)
(*   - angles and trigonometric values in units of 1/Scale,                *)
(*   - distances in units of 1/Scale km,                                   *)
(*   - compatibility scores in units of 1/ScoreScale.                      *)
(* Every division rounds to the nearest unit, as NUMERIC division does.    *)
(* The text columns of a profile (username, display_name, bio,             *)
(* avatar_url) are copied through the query unchanged and are left out.    *)
(***************************************************************************)
EXTENDS Integers, Sequences, FiniteSets

\* ---------------------------------------------------------------- bounds
NumUsers == 3
NumInterests == 1

Users == 1..NumUsers
Interests == 1..NumInterests

\* Coordinates a device can report, <<latitude, longitude>> in 1/CoordScale
\* degree: two places about 71 km apart.
Points == { <<0, 0>>, <<5, 4>> }

\* Values of max_distance_km (km) and limit_results a caller passes; 50 and
\* 20 are the defaults of the function's signature.
DefaultMaxDistanceKm == 50
DefaultLimitResults == 20
MaxDistances == { DefaultMaxDistanceKm, 2 * DefaultMaxDistanceKm }
Limits == { 1, DefaultLimitResults }

\* ------------------------------------------------------------ fixed point
CoordScale == 10
Scale == 10000
ScoreScale == 1000
Pi == 31416
\* atan(1/2) in units of 1/Scale
AtanHalf == 4636
\* the number of series terms summed by SIN, COS and ATAN
SeriesTerms == 8

\* SQL NULL: no coordinate, distance or score has this value
NULL == -1000000000

Abs(x) == IF x < 0 THEN -x ELSE x

\* a / b rounded to the nearest integer, halves away from zero (b > 0)
RoundDiv(a, b) ==
  LET n == Abs(a)
      q == (n \div b) + (IF 2 * (n % b) >= b THEN 1 ELSE 0)
  IN IF a < 0 THEN -q ELSE q

\* the product of two values in units of 1/Scale
MulS(a, b) == RoundDiv(a * b, Scale)

\* RADIANS(deg), deg in 1/CoordScale degree
RADIANS(deg) == RoundDiv(deg * Pi, 180 * CoordScale)

\* sum of the Taylor series: term is the k-th term, x2 = x*x
RECURSIVE SinSeries(_, _, _)
SinSeries(term, x2, k) ==
  IF k > SeriesTerms \/ term = 0 THEN 0
  ELSE term + SinSeries(-RoundDiv(MulS(term, x2), (2 * k) * (2 * k + 1)), x2, k + 1)

SIN(x) == SinSeries(x, MulS(x, x), 1)

RECURSIVE CosSeries(_, _, _)
CosSeries(term, x2, k) ==
  IF k > SeriesTerms \/ term = 0 THEN 0
  ELSE term + CosSeries(-RoundDiv(MulS(term, x2), (2 * k - 1) * (2 * k)), x2, k + 1)

COS(x) == CosSeries(Scale, MulS(x, x), 1)

\* the integer square root of n, by bisection on lo..hi
RECURSIVE ISqrt(_, _, _)
ISqrt(n, lo, hi) ==
  IF lo >= hi THEN lo
  ELSE LET mid == (lo + hi + 1) \div 2
       IN IF mid * mid <= n THEN ISqrt(n, mid, hi) ELSE ISqrt(n, lo, mid - 1)

\* SQRT of a value in units of 1/(Scale*Scale), result in units of 1/Scale
SQRT(a2) == LET r == ISqrt(a2, 0, Scale + 1)
            IN IF (r + 1) * (r + 1) - a2 < a2 - r * r THEN r + 1 ELSE r

RECURSIVE AtanSeries(_, _, _)
AtanSeries(pow, r2, k) ==
  IF k > SeriesTerms \/ pow = 0 THEN 0
  ELSE RoundDiv(pow, 2 * k - 1) + AtanSeries(-MulS(pow, r2), r2, k + 1)

\* atan(t) for 0 <= t <= 1, t in units of 1/Scale: the series for t <= 1/2,
\* and atan(t) = atan(1/2) + atan((t - 1/2) / (1 + t/2)) above it
ATAN(t) ==
  IF 2 * t <= Scale THEN AtanSeries(t, MulS(t, t), 1)
  ELSE LET r == RoundDiv((t - Scale \div 2) * Scale, Scale + t \div 2)
       IN AtanHalf + AtanSeries(r, MulS(r, r), 1)

\* ATAN2(y, x) for y >= 0, x >= 0 (the function is called with two square roots)
ATAN2(y, x) ==
  IF y = 0 THEN 0
  ELSE IF x = 0 THEN Pi \div 2
  ELSE IF y <= x THEN ATAN(RoundDiv(y * Scale, x))
  ELSE Pi \div 2 - ATAN(RoundDiv(x * Scale, y))

\* ----------------------------------------------------- calculate_distance
EarthRadius == 6371

\* Mutant of calculate_distance: the cosine of the first latitude stands in
\* for the cosine of the second.
calculate_distanceFirstCosine(lat1, lon1, lat2, lon2) ==
  LET dlat == RADIANS(lat2 - lat1)
      dlon == RADIANS(lon2 - lon1)
      sdlat == SIN(RoundDiv(dlat, 2))
      sdlon == SIN(RoundDiv(dlon, 2))
      a == sdlat * sdlat
           + MulS(MulS(COS(RADIANS(lat1)), COS(RADIANS(lat1))), sdlon) * sdlon
      c == 2 * ATAN2(SQRT(a), SQRT(Scale * Scale - a))
  IN EarthRadius * c

\* The great-circle distance in units of 1/Scale km between two coordinates
\* given in 1/CoordScale degree.  a is kept in units of 1/(Scale*Scale).
calculate_distance(lat1, lon1, lat2, lon2) ==
  LET dlat == RADIANS(lat2 - lat1)
      dlon == RADIANS(lon2 - lon1)
      sdlat == SIN(RoundDiv(dlat, 2))
      sdlon == SIN(RoundDiv(dlon, 2))
      a == sdlat * sdlat
           + MulS(MulS(COS(RADIANS(lat1)), COS(RADIANS(lat2))), sdlon) * sdlon
      c == 2 * ATAN2(SQRT(a), SQRT(Scale * Scale - a))
  IN EarthRadius * c

\* ------------------------------------------------------------------ state
VARIABLES
  profiles,        \* table profiles: the user_id of each row
  user_locations,  \* table user_locations: rows [user_id, latitude, longitude, is_active]
  user_interests,  \* table user_interests: rows [user_id, interest_id]
  rpc              \* <<>>, or <<r>>: the invocation of find_potential_matches that
                   \* has just run against the tables as they are, r = its arguments,
                   \* the ranked rows before LIMIT (ranked) and the rows returned (rows)

VARIABLES
  matches,         \* useMatching: state matches, the rows of the last setMatches
  loading,         \* useMatching: state loading
  error,           \* useMatching: state error, <<>> for null or <<message>>
  calls,           \* the findMatches calls of the session that await their RPC
  done             \* <<>>, or <<c>>: the findMatches call that has just ended

VARIABLES
  connections,     \* table connections: rows [id, requester_id, receiver_id, status]
  messages,        \* table messages: rows [id, sender_id, receiver_id, read_at]
  incomingRequests,\* Connections page, per user: the ids of the rows its Accept
                   \* and Decline buttons are drawn for, as last fetched
  hookConnections, \* useRealtimeConnections, per user: the ids of the rows in
                   \* its state connections, as last fetched
  responded,       \* <<>>, or <<r>>: the response to a connection request that
                   \* has just been written
  requested,       \* <<>>, or <<q>>: the connection request that has just been
                   \* sent
  sent             \* <<>>, or <<s>>: the sendMessage call that has just returned

VARIABLES
  scored           \* the evaluations of compatibility_score made so far

VARIABLES
  recipientId,     \* useMessages of the signed-in user: the recipientId of the
                   \* thread that is open, 0 when no thread is mounted
  threadMessages,  \* useMessages: state messages, the ids of the rows displayed
  fetches,         \* the fetchMessages calls of the thread that await their select
  events,          \* the realtime INSERT events on their way to the open thread
  marking,         \* the markAsRead updates of the signed-in user on their way
  clock,           \* the time new Date() reads
  marked           \* <<>>, or <<k>>: the markAsRead update that has just run

VARIABLES
  currentUserIndex,\* Discovery: state currentUserIndex
  locationEnabled, \* Discovery: state locationEnabled
  locationState,   \* useGeolocation: state.location, <<>> for null or <<point>>
  effects,         \* how many of the two fetch effects of the Discovery page ran
  toasts,          \* the titles of the toasts of the handler that has just run
  interests_hierarchy, \* table interests_hierarchy: rows [id, name, created_by]
  created,         \* <<>>, or <<c>>: the handleCustomInterest call that has just ended
  located          \* <<>>, or <<g>>: the last enableLocation call, g.position what
                   \* requestLocationAndSave returned, g.resumed whether the
                   \* call has gone on from its await

VARIABLES
  measured         \* the evaluations of calculate_distance made so far

storeVars == <<profiles, user_locations, user_interests, rpc>>
hookVars == <<matches, loading, error, calls, done>>
socialVars ==
  <<connections, messages, incomingRequests, hookConnections, responded,
    requested, sent>>
chatVars ==
  <<recipientId, threadMessages, fetches, events, marking, clock, marked>>
pageVars ==
  <<currentUserIndex, locationEnabled, locationState, effects, toasts,
    interests_hierarchy, created, located>>
extraVars == <<chatVars, pageVars, measured>>
vars == <<profiles, user_locations, user_interests, rpc,
          matches, loading, error, calls, done,
          connections, messages, incomingRequests, hookConnections, responded,
          requested, sent, scored,
          recipientId, threadMessages, fetches, events, marking, clock, marked,
          currentUserIndex, locationEnabled, locationState, effects, toasts,
          interests_hierarchy, created, located, measured>>

Min(a, b) == IF a <= b THEN a ELSE b

\* the sequences that hold every element of the finite set S once
Perms(S) ==
  LET n == Cardinality(S)
  IN { f \in [1..n -> S] : \A i, j \in 1..n : f[i] = f[j] => i = j }

\* ------------------------------------------------- find_potential_matches
\* user_location AS (SELECT latitude, longitude ... LIMIT 1): user_id is
\* UNIQUE in user_locations, so the CTE holds no row or one
user_location(user_id_param) ==
  { [latitude |-> l.latitude, longitude |-> l.longitude] :
      l \in { x \in user_locations : x.user_id = user_id_param /\ x.is_active } }

user_interests_list(user_id_param) ==
  { ui.interest_id : ui \in { x \in user_interests : x.user_id = user_id_param } }

\* Mutant of shared: the join with user_interests_list is left out, every
\* interest of the other user is counted.
sharedUnjoined(user_id_param) ==
  LET joined == { ui \in user_interests : ui.user_id # user_id_param }
  IN { [user_id |-> u,
        shared_count |-> Cardinality({ ui \in joined : ui.user_id = u })] :
         u \in { ui.user_id : ui \in joined } }

\* the subquery "shared": one row per other user with at least one interest
\* of user_interests_list, carrying COUNT(*)
shared(user_id_param) ==
  LET joined == { ui \in user_interests :
                    /\ ui.interest_id \in user_interests_list(user_id_param)
                    /\ ui.user_id # user_id_param }
  IN { [user_id |-> u,
        shared_count |-> Cardinality({ ui \in joined : ui.user_id = u })] :
         u \in { ui.user_id : ui \in joined } }

\* COALESCE(shared.shared_count, 0) over LEFT JOIN shared ON shared.user_id = p.user_id
shared_interests_count(user_id_param, p) ==
  LET m == { x \in shared(user_id_param) : x.user_id = p }
  IN IF m = {} THEN 0 ELSE (CHOOSE x \in m : TRUE).shared_count

\* LEFT JOIN user_locations ul ON ul.user_id = p.user_id AND ul.is_active:
\* the active row of p, or one row of NULLs
LeftJoinLocation(p) ==
  LET m == { l \in user_locations : l.user_id = p /\ l.is_active }
  IN IF m = {} THEN { [latitude |-> NULL, longitude |-> NULL] }
     ELSE { [latitude |-> l.latitude, longitude |-> l.longitude] : l \in m }

\* calculate_distance as SQL calls it: NULL when an argument is NULL
DistanceOrNull(user_loc, ul) ==
  IF \/ user_loc.latitude = NULL \/ user_loc.longitude = NULL
     \/ ul.latitude = NULL \/ ul.longitude = NULL
  THEN NULL
  ELSE calculate_distance(user_loc.latitude, user_loc.longitude, ul.latitude, ul.longitude)

\* CASE WHEN ul.latitude IS NOT NULL AND ul.longitude IS NOT NULL
\*       AND user_loc.latitude IS NOT NULL THEN calculate_distance(...) ELSE NULL END
distance_km(user_loc, ul) ==
  IF ul.latitude # NULL /\ ul.longitude # NULL /\ user_loc.latitude # NULL
  THEN DistanceOrNull(user_loc, ul)
  ELSE NULL

\* Mutant of DistanceFilter: a missing location is read as the coordinate
\* (0, 0) instead of as unknown.
DistanceFilterOrigin(user_loc, ul, max_distance_km) ==
  calculate_distance(user_loc.latitude, user_loc.longitude,
                     IF ul.latitude = NULL THEN 0 ELSE ul.latitude,
                     IF ul.longitude = NULL THEN 0 ELSE ul.longitude)
    <= max_distance_km * Scale

\* Mutant of DistanceFilter: the comparison with max_distance_km is turned round.
DistanceFilterBeyond(user_loc, ul, max_distance_km) ==
  \/ ul.latitude = NULL
  \/ /\ DistanceOrNull(user_loc, ul) # NULL
     /\ DistanceOrNull(user_loc, ul) >= max_distance_km * Scale

\* ul.latitude IS NULL OR calculate_distance(...) <= max_distance_km
\* (a NULL comparison does not select the row)
DistanceFilter(user_loc, ul, max_distance_km) ==
  \/ ul.latitude = NULL
  \/ /\ DistanceOrNull(user_loc, ul) # NULL
     /\ DistanceOrNull(user_loc, ul) <= max_distance_km * Scale

\* Mutant of NotRequester: the requester's own profile is not filtered out.
NotRequesterDropped(p, user_id_param) == TRUE

\* WHERE p.user_id != user_id_param
NotRequester(p, user_id_param) == p # user_id_param

\* the CTE potential_matches
potential_matches(user_id_param, max_distance_km) ==
  { [user_id |-> t[1],
     distance_km |-> distance_km(t[2], t[3]),
     shared_interests_count |-> shared_interests_count(user_id_param, t[1])] :
      t \in { x \in profiles \X user_location(user_id_param)
                      \X UNION { LeftJoinLocation(p) : p \in profiles } :
                /\ x[3] \in LeftJoinLocation(x[1])
                /\ NotRequester(x[1], user_id_param)
                /\ DistanceFilter(x[2], x[3], max_distance_km) } }

InterestWeight == 10
ProximityWeight == 100

\* Mutant of compatibility_score: the interest part is inside the quotient,
\* (shared * 10 + 100) / (1 + distance_km).
compatibility_scoreAllDivided(distance, shared_count) ==
  IF distance = NULL THEN shared_count * InterestWeight * ScoreScale
  ELSE RoundDiv((shared_count * InterestWeight + ProximityWeight) * ScoreScale * Scale,
                Scale + distance)

\* Mutant of compatibility_score: the proximity part is subtracted.
compatibility_scoreProximitySubtracted(distance, shared_count) ==
  IF distance = NULL THEN shared_count * InterestWeight * ScoreScale
  ELSE shared_count * InterestWeight * ScoreScale
       - RoundDiv(ProximityWeight * ScoreScale * Scale, Scale + distance)

\* the CASE that computes compatibility_score, in units of 1/ScoreScale
compatibility_score(distance, shared_count) ==
  IF distance = NULL THEN shared_count * InterestWeight * ScoreScale
  ELSE shared_count * InterestWeight * ScoreScale
       + RoundDiv(ProximityWeight * ScoreScale * Scale, Scale + distance)

\* Mutant of FinalWhere: AND in place of OR.
FinalWhereBoth(pm) == pm.shared_interests_count > 0 /\ pm.distance_km # NULL

\* WHERE pm.shared_interests_count > 0 OR pm.distance_km IS NOT NULL
FinalWhere(pm) == pm.shared_interests_count > 0 \/ pm.distance_km # NULL

\* the rows of the final SELECT, before ORDER BY
SelectedRows(user_id_param, max_distance_km) ==
  { [user_id |-> pm.user_id,
     distance_km |-> pm.distance_km,
     shared_interests_count |-> pm.shared_interests_count,
     compatibility_score |->
       compatibility_score(pm.distance_km, pm.shared_interests_count)] :
      pm \in { x \in potential_matches(user_id_param, max_distance_km) : FinalWhere(x) } }

\* Mutant of OrderBefore: compatibility_score ascending.
OrderBeforeAscending(r1, r2) ==
  \/ r1.compatibility_score < r2.compatibility_score
  \/ /\ r1.compatibility_score = r2.compatibility_score
     /\ \/ r1.shared_interests_count > r2.shared_interests_count
        \/ /\ r1.shared_interests_count = r2.shared_interests_count
           /\ r1.distance_km # NULL
           /\ (r2.distance_km = NULL \/ r1.distance_km < r2.distance_km)

\* ORDER BY compatibility_score DESC, pm.shared_interests_count DESC,
\*          pm.distance_km ASC NULLS LAST: r1 sorts strictly before r2
OrderBefore(r1, r2) ==
  \/ r1.compatibility_score > r2.compatibility_score
  \/ /\ r1.compatibility_score = r2.compatibility_score
     /\ \/ r1.shared_interests_count > r2.shared_interests_count
        \/ /\ r1.shared_interests_count = r2.shared_interests_count
           /\ r1.distance_km # NULL
           /\ (r2.distance_km = NULL \/ r1.distance_km < r2.distance_km)

\* r put into the sorted sequence s, behind the rows it does not sort before
RECURSIVE InsertRow(_, _)
InsertRow(s, r) ==
  IF s = <<>> THEN <<r>>
  ELSE IF OrderBefore(r, Head(s)) THEN <<r>> \o s
  ELSE <<Head(s)>> \o InsertRow(Tail(s), r)

\* the sort of the rows in the order the scan produced them
RECURSIVE SortRows(_)
SortRows(scan) ==
  IF scan = <<>> THEN <<>>
  ELSE InsertRow(SortRows(SubSeq(scan, 1, Len(scan) - 1)), scan[Len(scan)])

\* LIMIT limit_results
LimitRows(s, limit_results) == SubSeq(s, 1, Min(limit_results, Len(s)))

\* Mutant of OrderAndLimit: the rows are cut to limit_results before the sort.
LimitThenOrder(scan, limit_results) == SortRows(LimitRows(scan, limit_results))

\* ORDER BY ... LIMIT over the rows in scan order
OrderAndLimit(scan, limit_results) == LimitRows(SortRows(scan), limit_results)

\* LIMIT limit_results: Postgres refuses a negative row count when the query
\* starts and the call returns the error instead of rows; <<>> is no error
LimitError(limit_results) ==
  IF limit_results < 0 THEN << "LIMIT must not be negative" >> ELSE <<>>

\* Mutant of find_potential_matches: the invocation also marks the
\* requester's location row as inactive.
find_potential_matchesDeactivating(user_id_param, max_distance_km, limit_results) ==
  \E scan \in Perms(SelectedRows(user_id_param, max_distance_km)) :
    /\ rpc' = << [user_id_param |-> user_id_param,
                  max_distance_km |-> max_distance_km,
                  limit_results |-> limit_results,
                  error |-> LimitError(limit_results),
                  ranked |-> SortRows(scan),
                  rows |-> OrderAndLimit(scan, limit_results)] >>
    /\ user_locations' =
         { IF l.user_id = user_id_param THEN [l EXCEPT !.is_active = FALSE] ELSE l :
             l \in user_locations }
    /\ UNCHANGED <<profiles, user_interests>>

\* One invocation of find_potential_matches.  SQL fixes no order for the rows
\* a query reads, and none among rows equal on every ORDER BY key: scan is
\* any order of the selected rows.
find_potential_matches(user_id_param, max_distance_km, limit_results) ==
  \E scan \in Perms(SelectedRows(user_id_param, max_distance_km)) :
    /\ rpc' = << [user_id_param |-> user_id_param,
                  max_distance_km |-> max_distance_km,
                  limit_results |-> limit_results,
                  error |-> LimitError(limit_results),
                  ranked |-> SortRows(scan),
                  rows |-> OrderAndLimit(scan, limit_results)] >>
    /\ UNCHANGED <<profiles, user_locations, user_interests>>

\* -------------------------------------------------------- client writes
\* useProfile.updateProfile: upsert of the user's profiles row
updateProfile(user) ==
  /\ profiles' = profiles \cup {user}
  /\ rpc' = <<>>
  /\ UNCHANGED <<user_locations, user_interests>>

\* table interests: the ids of its rows.  The migration fills the table and
\* nothing in the application inserts into it or deletes from it.
interests == 1..(NumInterests + 1)

\* the insert into user_interests fails: UNIQUE(user_id, interest_id) refuses
\* a second row for the pair, and interest_id REFERENCES interests(id)
\* refuses an id that is not in table interests
AddInterestRefused(user, interestId) ==
  \/ \E ui \in user_interests : ui.user_id = user /\ ui.interest_id = interestId
  \/ interestId \notin interests

\* useProfile.addInterest: the insert; when it fails the table is left as it
\* is and the hook shows an error toast
addInterest(user, interestId) ==
  /\ user_interests' =
       IF AddInterestRefused(user, interestId)
       THEN user_interests
       ELSE user_interests \cup { [user_id |-> user, interest_id |-> interestId] }
  /\ rpc' = <<>>
  /\ UNCHANGED <<profiles, user_locations>>

\* useProfile.removeInterest: delete where user_id and interest_id match
removeInterest(user, interestId) ==
  /\ user_interests' =
       { ui \in user_interests : ~(ui.user_id = user /\ ui.interest_id = interestId) }
  /\ rpc' = <<>>
  /\ UNCHANGED <<profiles, user_locations>>

\* Mutant of saveLocationToDatabase: a plain insert into a table without the
\* unique constraint on user_id.
saveLocationToDatabaseInserting(user, location) ==
  /\ user_locations' =
       user_locations
       \cup { [user_id |-> user, latitude |-> location[1],
               longitude |-> location[2], is_active |-> TRUE] }
  /\ rpc' = <<>>
  /\ UNCHANGED <<profiles, user_interests>>

\* useGeolocation.saveLocationToDatabase: upsert on conflict user_id
saveLocationToDatabase(user, location) ==
  /\ user_locations' =
       { l \in user_locations : l.user_id # user }
       \cup { [user_id |-> user, latitude |-> location[1],
               longitude |-> location[2], is_active |-> TRUE] }
  /\ rpc' = <<>>
  /\ UNCHANGED <<profiles, user_interests>>

\* useGeolocation.clearLocation: update is_active = false where user_id matches
clearLocation(user) ==
  /\ user_locations' =
       { IF l.user_id = user THEN [l EXCEPT !.is_active = FALSE] ELSE l :
           l \in user_locations }
  /\ rpc' = <<>>
  /\ UNCHANGED <<profiles, user_interests>>

\* ---------------------------------------------------------- specification
\* no findMatches call made yet: useState([]), useState(false), useState(null)
InitHook ==
  /\ matches = <<>>
  /\ loading = FALSE
  /\ error = <<>>
  /\ calls = <<>>
  /\ done = <<>>

\* the tables connections and messages as the migrations create them, and
\* useState([]) of the Connections page and of useRealtimeConnections
InitSocial ==
  /\ connections = {}
  /\ messages = {}
  /\ incomingRequests = [u \in Users |-> {}]
  /\ hookConnections = [u \in Users |-> {}]
  /\ responded = <<>>
  /\ requested = <<>>
  /\ sent = <<>>

\* no thread mounted: useState([]) of useMessages, nothing on its way
InitChat ==
  /\ recipientId = 0
  /\ threadMessages = <<>>
  /\ fetches = <<>>
  /\ events = <<>>
  /\ marking = {}
  /\ clock = 0
  /\ marked = <<>>

\* useState(0) and useState(false) of Discovery, location: null of
\* useGeolocation, and the table interests_hierarchy without custom rows
InitPage ==
  /\ currentUserIndex = 0
  /\ locationEnabled = FALSE
  /\ locationState = <<>>
  /\ effects = 0
  /\ toasts = <<>>
  /\ interests_hierarchy = {}
  /\ created = <<>>
  /\ located = <<>>

InitExtra ==
  /\ InitChat
  /\ InitPage
  /\ measured = {}

Init ==
  /\ profiles = {}
  /\ user_locations = {}
  /\ user_interests = {}
  /\ rpc = <<>>
  /\ InitHook
  /\ InitSocial
  /\ scored = {}
  /\ InitExtra

\* the profile, interest and location writes and the ranker; the matching
\* hook, the connections and the messages are not part of this specification
Next ==
  \/ \E u \in Users :
       updateProfile(u) /\ UNCHANGED <<hookVars, socialVars, scored, extraVars>>
  \/ \E u \in Users, i \in Interests :
       addInterest(u, i) /\ UNCHANGED <<hookVars, socialVars, scored, extraVars>>
  \/ \E u \in Users, i \in Interests :
       removeInterest(u, i) /\ UNCHANGED <<hookVars, socialVars, scored, extraVars>>
  \/ \E u \in Users, p \in Points :
       saveLocationToDatabase(u, p) /\ UNCHANGED <<hookVars, socialVars, scored, extraVars>>
  \/ \E u \in Users :
       clearLocation(u) /\ UNCHANGED <<hookVars, socialVars, scored, extraVars>>
  \/ \E u \in Users, d \in MaxDistances, n \in Limits :
       find_potential_matches(u, d, n) /\ UNCHANGED <<hookVars, socialVars, scored, extraVars>>

Spec == Init /\ [][Next]_vars

\* ------------------------------------------ the ranker over given tables
\* The ranker as a function of the tables and of its arguments: the tables
\* are any that the client writes can build over a catalogue of
\* NumInterests + 1 interests, and stay as they are; the arguments are any
\* numbers a caller of the RPC can pass, the defaults among them.
WideInterests == 1..(NumInterests + 1)
RankMaxDistances == { -DefaultMaxDistanceKm, 0, DefaultMaxDistanceKm }
RankLimits == { -1, 0, 1, DefaultLimitResults }
\* one place: how far apart the users are is left to Spec
RankPoints == { p \in Points : p = <<0, 0>> }

\* every user with a profile, with or without an active location row at one
\* of the RankPoints, and with any interests of the catalogue
InitTables ==
  /\ profiles = Users
  /\ \E at \in [Users -> RankPoints \cup {<<>>}] :
       user_locations =
         { [user_id |-> u, latitude |-> at[u][1], longitude |-> at[u][2],
            is_active |-> TRUE] : u \in { x \in Users : at[x] # <<>> } }
  /\ user_interests \in SUBSET [user_id : Users, interest_id : WideInterests]

InitRank ==
  /\ InitTables
  /\ rpc = <<>>
  /\ InitHook
  /\ InitSocial
  /\ scored = {}
  /\ InitExtra

NextRank ==
  \E u \in Users, d \in RankMaxDistances, n \in RankLimits :
    find_potential_matches(u, d, n) /\ UNCHANGED <<hookVars, socialVars, scored, extraVars>>

SpecRank == InitRank /\ [][NextRank]_vars

\* ------------------------------------------------- useMatching.findMatches
\* One session: the hook of the signed-in user.  A filter value that is
\* absent is 0 here: the code reads both with || and with a truth test.
\* The Discovery page passes maxDistance 50 or none, which reach the RPC as
\* the same argument: none stands for both.
SessionUser == 1
MaxCalls == 2
FilterMaxDistances == { 0 }
FilterLimits == { -1, 0, 1 }
FilterMinShared == 0..(NumInterests + 1)
Filters ==
  [maxDistance : FilterMaxDistances, minSharedInterests : FilterMinShared,
   limit : FilterLimits]

\* filters.maxDistance || 50, filters.limit || 20
OrDefault(value, default) == IF value # 0 THEN value ELSE default

\* Mutant of FilterByMinShared: > in place of >=.
FilterByMinSharedStrict(data, minSharedInterests) ==
  IF minSharedInterests # 0 /\ minSharedInterests > 0
  THEN LET Above(match) == match.shared_interests_count > minSharedInterests
       IN SelectSeq(data, Above)
  ELSE data

\* if (filters.minSharedInterests && filters.minSharedInterests > 0)
\*   filteredMatches = filteredMatches.filter(...)
FilterByMinShared(data, minSharedInterests) ==
  IF minSharedInterests # 0 /\ minSharedInterests > 0
  THEN LET AtLeast(match) == match.shared_interests_count >= minSharedInterests
       IN SelectSeq(data, AtLeast)
  ELSE data

\* the sequence s without its i-th element
RemoveAt(s, i) == SubSeq(s, 1, i - 1) \o SubSeq(s, i + 1, Len(s))

\* findMatches up to its await: setLoading(true), setError(null) and the
\* request of the RPC, with the arguments as they are computed here
findMatches(filters) ==
  /\ Len(calls) < MaxCalls
  /\ loading' = TRUE
  /\ error' = <<>>
  /\ calls' = Append(calls,
       [filters |-> filters,
        max_distance_km |-> OrDefault(filters.maxDistance, DefaultMaxDistanceKm),
        limit_results |-> OrDefault(filters.limit, DefaultLimitResults),
        rpcs |-> 1,
        response |-> <<>>])
  /\ done' = <<>>
  /\ UNCHANGED <<matches, storeVars>>

\* the server runs the function for the i-th awaiting call; supabase.rpc
\* will resolve to { data, error }, data null when there is an error
findMatchesRpc(i) ==
  /\ i \in 1..Len(calls)
  /\ calls[i].response = <<>>
  /\ find_potential_matches(SessionUser, calls[i].max_distance_km,
                            calls[i].limit_results)
  /\ calls' = [calls EXCEPT ![i].response =
       << [data |-> IF rpc'[1].error = <<>> THEN rpc'[1].rows ELSE <<>>,
           error |-> rpc'[1].error] >>]
  /\ UNCHANGED <<matches, loading, error, done>>

\* the request of the i-th awaiting call does not reach the function
findMatchesRpcFails(i) ==
  /\ i \in 1..Len(calls)
  /\ calls[i].response = <<>>
  /\ calls' = [calls EXCEPT ![i].response =
       << [data |-> <<>>, error |-> << "Failed to fetch" >>] >>]
  /\ UNCHANGED <<matches, loading, error, done, storeVars>>

\* Mutant of findMatchesResume: a failed call empties matches.
findMatchesResumeClearing(i) ==
  /\ i \in 1..Len(calls)
  /\ calls[i].response # <<>>
  /\ LET c == calls[i]
         r == c.response[1]
     IN /\ matches' = IF r.error # <<>> THEN <<>>
                      ELSE FilterByMinShared(r.data, c.filters.minSharedInterests)
        /\ error' = IF r.error # <<>> THEN r.error ELSE error
        /\ done' = << [filters |-> c.filters, rpcs |-> c.rpcs, data |-> r.data,
                       error |-> r.error, before |-> matches] >>
  /\ loading' = FALSE
  /\ calls' = RemoveAt(calls, i)
  /\ UNCHANGED storeVars

\* findMatches from its await to its end: throw on rpcError, else filter and
\* setMatches; catch: setError; finally: setLoading(false)
findMatchesResume(i) ==
  /\ i \in 1..Len(calls)
  /\ calls[i].response # <<>>
  /\ LET c == calls[i]
         r == c.response[1]
     IN /\ matches' = IF r.error # <<>> THEN matches
                      ELSE FilterByMinShared(r.data, c.filters.minSharedInterests)
        /\ error' = IF r.error # <<>> THEN r.error ELSE error
        /\ done' = << [filters |-> c.filters, rpcs |-> c.rpcs, data |-> r.data,
                       error |-> r.error, before |-> matches] >>
  /\ loading' = FALSE
  /\ calls' = RemoveAt(calls, i)
  /\ UNCHANGED storeVars

\* every user with a profile and an active location row at one place, the
\* signed-in user with every interest of the catalogue, the others with any
InitMatchingTables ==
  /\ profiles = Users
  /\ user_locations =
       { [user_id |-> u, latitude |-> p[1], longitude |-> p[2], is_active |-> TRUE] :
           u \in Users, p \in RankPoints }
  /\ \E others \in SUBSET [user_id : Users \ {SessionUser}, interest_id : WideInterests] :
       user_interests =
         others \cup [user_id : {SessionUser}, interest_id : WideInterests]

InitMatching ==
  /\ InitMatchingTables
  /\ rpc = <<>>
  /\ InitHook
  /\ InitSocial
  /\ scored = {}
  /\ InitExtra

NextMatching ==
  \/ \E f \in Filters : findMatches(f) /\ UNCHANGED <<socialVars, scored, extraVars>>
  \/ \E i \in 1..MaxCalls : findMatchesRpc(i) /\ UNCHANGED <<socialVars, scored, extraVars>>
  \/ \E i \in 1..MaxCalls : findMatchesRpcFails(i) /\ UNCHANGED <<socialVars, scored, extraVars>>
  \/ \E i \in 1..MaxCalls : findMatchesResume(i) /\ UNCHANGED <<socialVars, scored, extraVars>>

SpecMatching == InitMatching /\ [][NextMatching]_vars

\* ------------------------------------------------ connections and messages
MaxConnections == 2
MaxMessages == 1
Contents == { " ", "hello" }
Responses == { "accepted", "rejected" }

\* gen_random_uuid(): UNIQUE(requester_id, receiver_id) and the absence of
\* a DELETE policy make the pair as good a key as the id
ConnectionId(requester_id, receiver_id) == <<requester_id, receiver_id>>

\* content.trim()
Trim(content) == IF content = " " THEN "" ELSE content

\* the rows the SELECT policy of connections shows to uid
Involving(uid) ==
  { c \in connections : uid = c.requester_id \/ uid = c.receiver_id }

\* policy "Users can update connections involving them"
ConnectionUpdatePolicy(uid, c) == uid = c.requester_id \/ uid = c.receiver_id

\* .from('connections').update({ status }).eq('id', connectionId) sent by uid
UpdateStatus(uid, connectionId, status) ==
  { IF c.id = connectionId /\ ConnectionUpdatePolicy(uid, c)
    THEN [c EXCEPT !.status = status] ELSE c : c \in connections }

\* the status of the row with this id, "none" when there is no such row
StatusOf(connectionId) ==
  IF \E c \in connections : c.id = connectionId
  THEN (CHOOSE c \in connections : c.id = connectionId).status
  ELSE "none"

\* UNIQUE(requester_id, receiver_id): the insert of a row for a pair that has
\* one fails
InsertRefused(requester_id, receiver_id) ==
  \E c \in connections :
    c.requester_id = requester_id /\ c.receiver_id = receiver_id

\* Mutant of InsertConnection: the unique constraint is not there.
InsertConnectionUnchecked(requester_id, receiver_id) ==
  connections \cup
    { [id |-> ConnectionId(requester_id, receiver_id),
       requester_id |-> requester_id, receiver_id |-> receiver_id,
       status |-> "pending"] }

\* .from('connections').insert({ requester_id, receiver_id, status:
\* 'pending' }): the table after the insert
InsertConnection(requester_id, receiver_id) ==
  IF InsertRefused(requester_id, receiver_id) THEN connections
  ELSE connections \cup
         { [id |-> ConnectionId(requester_id, receiver_id),
            requester_id |-> requester_id, receiver_id |-> receiver_id,
            status |-> "pending"] }

\* useRealtimeConnections.sendConnectionRequest: insert of a pending row
\* for another user, true when it is stored and false when it is refused
sendConnectionRequest(user, receiverId) ==
  /\ user # receiverId
  /\ InsertRefused(user, receiverId) \/ Cardinality(connections) < MaxConnections
  /\ connections' = InsertConnection(user, receiverId)
  /\ requested' = << [user |-> user, receiverId |-> receiverId,
                      returned |-> ~InsertRefused(user, receiverId),
                      before |-> connections] >>
  /\ responded' = <<>>
  /\ sent' = <<>>
  /\ UNCHANGED <<messages, incomingRequests, hookConnections>>

\* what Connections.fetchConnections puts into incomingRequests: the pending
\* rows received by the user whose requester has a profile
IncomingOf(user, rows) ==
  { c.id : c \in { x \in rows : /\ x.receiver_id = user
                                /\ x.status = "pending"
                                /\ x.requester_id \in profiles } }

\* Connections.fetchConnections, run when the page mounts
pageFetchConnections(user) ==
  /\ incomingRequests' = [incomingRequests EXCEPT ![user] = IncomingOf(user, Involving(user))]
  /\ responded' = <<>>
  /\ sent' = <<>>
  /\ requested' = <<>>
  /\ UNCHANGED <<connections, messages, hookConnections>>

\* Connections.handleConnectionResponse, from the Accept or Decline button
\* of a row of incomingRequests: the update, then fetchConnections
handleConnectionResponse(user, connectionId, status) ==
  /\ connectionId \in incomingRequests[user]
  /\ connections' = UpdateStatus(user, connectionId, status)
  /\ incomingRequests' =
       [incomingRequests EXCEPT ![user] =
          IncomingOf(user, { c \in connections' :
                               user = c.requester_id \/ user = c.receiver_id })]
  /\ responded' = << [user |-> user, id |-> connectionId, status |-> status,
                      before |-> StatusOf(connectionId)] >>
  /\ sent' = <<>>
  /\ requested' = <<>>
  /\ UNCHANGED <<messages, hookConnections>>

\* useRealtimeConnections.fetchConnections, run when the hook mounts and on
\* every change event of the subscription
fetchConnections(user) ==
  /\ hookConnections' = [hookConnections EXCEPT ![user] = { c.id : c \in Involving(user) }]
  /\ responded' = <<>>
  /\ sent' = <<>>
  /\ requested' = <<>>
  /\ UNCHANGED <<connections, messages, incomingRequests>>

\* useRealtimeConnections.respondToConnectionRequest for a row of the hook's
\* state: the update alone, the lists are fetched again by the subscription
respondToConnectionRequest(user, connectionId, accept) ==
  /\ connectionId \in hookConnections[user]
  /\ connections' =
       UpdateStatus(user, connectionId, IF accept THEN "accepted" ELSE "rejected")
  /\ responded' = << [user |-> user, id |-> connectionId,
                      status |-> IF accept THEN "accepted" ELSE "rejected",
                      before |-> StatusOf(connectionId)] >>
  /\ sent' = <<>>
  /\ requested' = <<>>
  /\ UNCHANGED <<messages, incomingRequests, hookConnections>>

\* Mutant of MessageInsertPolicy: the status of the connection is not read.
MessageInsertPolicyAnyStatus(uid, m) ==
  /\ uid = m.sender_id
  /\ \E c \in connections :
       \/ c.requester_id = uid /\ c.receiver_id = m.receiver_id
       \/ c.receiver_id = uid /\ c.requester_id = m.receiver_id

\* policy "Users can send messages to their connections"
MessageInsertPolicy(uid, m) ==
  /\ uid = m.sender_id
  /\ \E c \in connections :
       /\ c.status = "accepted"
       /\ \/ c.requester_id = uid /\ c.receiver_id = m.receiver_id
          \/ c.receiver_id = uid /\ c.requester_id = m.receiver_id

\* useMessages.sendMessage: false for blank content; else the insert, false
\* when it is refused and true when the row is stored
sendMessage(user, receiverId, content) ==
  /\ Cardinality(messages) < MaxMessages
  /\ LET m == [id |-> Cardinality(messages) + 1, sender_id |-> user,
               receiver_id |-> receiverId, read_at |-> NULL]
         ok == Trim(content) # "" /\ MessageInsertPolicy(user, m)
     IN /\ messages' = IF ok THEN messages \cup {m} ELSE messages
        /\ sent' = << [user |-> user, receiverId |-> receiverId,
                       content |-> content, returned |-> ok,
                       before |-> messages] >>
  /\ responded' = <<>>
  /\ requested' = <<>>
  /\ UNCHANGED <<connections, incomingRequests, hookConnections>>

\* every user with a profile; no connection and no message yet
InitConnections ==
  /\ profiles = Users
  /\ user_locations = {}
  /\ user_interests = {}
  /\ rpc = <<>>
  /\ InitHook
  /\ InitSocial
  /\ scored = {}
  /\ InitExtra

NextConnections ==
  \/ \E u, v \in Users :
       sendConnectionRequest(u, v) /\ UNCHANGED <<storeVars, hookVars, scored, extraVars>>
  \/ \E u \in Users :
       pageFetchConnections(u) /\ UNCHANGED <<storeVars, hookVars, scored, extraVars>>
  \/ \E u \in Users, c \in Users \X Users, s \in Responses :
       handleConnectionResponse(u, c, s) /\ UNCHANGED <<storeVars, hookVars, scored, extraVars>>
  \/ \E u \in Users :
       fetchConnections(u) /\ UNCHANGED <<storeVars, hookVars, scored, extraVars>>
  \/ \E u \in Users, c \in Users \X Users, a \in BOOLEAN :
       respondToConnectionRequest(u, c, a) /\ UNCHANGED <<storeVars, hookVars, scored, extraVars>>
  \/ \E u, v \in Users, t \in Contents :
       sendMessage(u, v, t) /\ UNCHANGED <<storeVars, hookVars, scored, extraVars>>

SpecConnections == InitConnections /\ [][NextConnections]_vars

\* ------------------------------------------------------ the open thread
\* useMessages(recipientId) of the signed-in user, the messages the other
\* users send to it and the markAsRead updates of every user.
MaxClock == 2
MaxFetches == 2

\* the ids of a set of rows by created_at ascending: ids are given in the
\* order of the inserts
RECURSIVE OrderById(_)
OrderById(ids) ==
  IF ids = {} THEN <<>>
  ELSE LET last == CHOOSE i \in ids : \A j \in ids : j <= i
       IN Append(OrderById(ids \ {last}), last)

\* the select of fetchMessages and its filter: the rows between the user
\* and otherUserId, by created_at ascending
filteredMessages(user, otherUserId) ==
  OrderById({ msg.id : msg \in
    { m \in messages :
        \/ m.sender_id = user /\ m.receiver_id = otherUserId
        \/ m.sender_id = otherUserId /\ m.receiver_id = user } })

\* policy "Users can update their own messages read status"
MessageUpdatePolicy(uid, m) == uid = m.receiver_id

\* Mutant of MarkRows: the update does not ask for read_at to be null.
MarkRowsOverwriting(user, senderId, now) ==
  { IF /\ MessageUpdatePolicy(user, m)
       /\ m.sender_id = senderId
       /\ m.receiver_id = user
    THEN [m EXCEPT !.read_at = now] ELSE m : m \in messages }

\* .update({ read_at: now }).eq('sender_id', senderId).eq('receiver_id',
\* user.id).is('read_at', null) sent by user: the table after the update
MarkRows(user, senderId, now) ==
  { IF /\ MessageUpdatePolicy(user, m)
       /\ m.sender_id = senderId
       /\ m.receiver_id = user
       /\ m.read_at = NULL
    THEN [m EXCEPT !.read_at = now] ELSE m : m \in messages }

\* the mount of useMessages(recipientId) by the signed-in user: the initial
\* effect sends fetchMessages(recipientId) and markAsRead(recipientId)
openThread(otherUserId) ==
  /\ recipientId = 0
  /\ otherUserId # SessionUser
  /\ clock + Cardinality(marking \cup {otherUserId}) <= MaxClock
  /\ recipientId' = otherUserId
  /\ threadMessages' = <<>>
  /\ fetches' = << [otherUserId |-> otherUserId, response |-> <<>>] >>
  /\ events' = <<>>
  /\ marking' = marking \cup {otherUserId}
  /\ marked' = <<>>
  /\ UNCHANGED clock

\* the unmount: the channel is removed, and what is still on its way to
\* the hook finds no state to set
closeThread ==
  /\ recipientId # 0
  /\ recipientId' = 0
  /\ threadMessages' = <<>>
  /\ fetches' = <<>>
  /\ events' = <<>>
  /\ marked' = <<>>
  /\ UNCHANGED <<marking, clock>>

\* the select of the i-th fetchMessages call runs on the tables as they are
fetchMessagesSelect(i) ==
  /\ i \in 1..Len(fetches)
  /\ fetches[i].response = <<>>
  /\ fetches' =
       [fetches EXCEPT ![i].response =
          << filteredMessages(SessionUser, fetches[i].otherUserId) >>]
  /\ marked' = <<>>
  /\ UNCHANGED <<recipientId, threadMessages, events, marking, clock>>

\* the i-th fetchMessages call resumes with its rows: setMessages
fetchMessagesResume(i) ==
  /\ i \in 1..Len(fetches)
  /\ fetches[i].response # <<>>
  /\ threadMessages' = fetches[i].response[1]
  /\ fetches' = RemoveAt(fetches, i)
  /\ marked' = <<>>
  /\ UNCHANGED <<recipientId, events, marking, clock>>

\* the sender of the message with this id
SenderOf(id) == (CHOOSE m \in messages : m.id = id).sender_id

\* the realtime INSERT handler runs for the first event on its way
realtimeInsert ==
  /\ events # <<>>
  /\ threadMessages' =
       IF recipientId = SenderOf(Head(events))
       THEN Append(threadMessages, Head(events))
       ELSE threadMessages
  /\ events' = Tail(events)
  /\ marked' = <<>>
  /\ UNCHANGED <<recipientId, fetches, marking, clock>>

\* useMessages.markAsRead(senderId) by user.  The hook calls it in its
\* initial effect only and MessageThread does not call it: the signed-in
\* user's call is one that openThread sent, the other users mount their
\* threads when they like.  MaxClock leaves room for every update that is
\* on its way.
markAsRead(user, senderId) ==
  /\ user = SessionUser => senderId \in marking
  /\ user # SessionUser => clock + Cardinality(marking) < MaxClock
  /\ clock' = clock + 1
  /\ messages' = MarkRows(user, senderId, clock + 1)
  /\ marking' = IF user = SessionUser THEN marking \ {senderId} ELSE marking
  /\ marked' = << [user |-> user, senderId |-> senderId, before |-> messages] >>
  /\ sent' = <<>>
  /\ responded' = <<>>
  /\ requested' = <<>>
  /\ UNCHANGED <<connections, incomingRequests, hookConnections>>
  /\ UNCHANGED <<recipientId, threadMessages, fetches, events>>

\* what sendMessage does besides the insert: the stored row is published to
\* the receiver's channel, and the sender's open thread with the receiver
\* is fetched again
sendMessageRefresh(user, receiverId, content) ==
  LET id == Cardinality(messages) + 1
      stored == Trim(content) # "" /\ MessageInsertPolicy(user, [id |-> id,
                  sender_id |-> user, receiver_id |-> receiverId, read_at |-> NULL])
      refresh == stored /\ user = SessionUser /\ recipientId = receiverId
  IN /\ refresh => Len(fetches) < MaxFetches
     /\ events' =
          IF stored /\ receiverId = SessionUser /\ recipientId # 0
          THEN Append(events, id) ELSE events
     /\ fetches' =
          IF refresh
          THEN Append(fetches, [otherUserId |-> receiverId, response |-> <<>>])
          ELSE fetches
     /\ marked' = <<>>
     /\ UNCHANGED <<recipientId, threadMessages, marking, clock>>

\* every user with a profile, and the signed-in user connected to user 2
InitMessages ==
  /\ profiles = Users
  /\ user_locations = {}
  /\ user_interests = {}
  /\ rpc = <<>>
  /\ InitHook
  /\ connections =
       { [id |-> ConnectionId(2, SessionUser), requester_id |-> 2,
          receiver_id |-> SessionUser, status |-> "accepted"] }
  /\ messages = {}
  /\ incomingRequests = [u \in Users |-> {}]
  /\ hookConnections = [u \in Users |-> {}]
  /\ responded = <<>>
  /\ requested = <<>>
  /\ sent = <<>>
  /\ scored = {}
  /\ InitExtra

NextMessages ==
  \/ \E v \in Users :
       openThread(v) /\ UNCHANGED <<storeVars, hookVars, socialVars, scored, pageVars, measured>>
  \/ closeThread /\ UNCHANGED <<storeVars, hookVars, socialVars, scored, pageVars, measured>>
  \/ \E i \in 1..MaxFetches :
       fetchMessagesSelect(i)
         /\ UNCHANGED <<storeVars, hookVars, socialVars, scored, pageVars, measured>>
  \/ \E i \in 1..MaxFetches :
       fetchMessagesResume(i)
         /\ UNCHANGED <<storeVars, hookVars, socialVars, scored, pageVars, measured>>
  \/ realtimeInsert /\ UNCHANGED <<storeVars, hookVars, socialVars, scored, pageVars, measured>>
  \/ \E u, v \in Users :
       markAsRead(u, v) /\ UNCHANGED <<storeVars, hookVars, scored, pageVars, measured>>
  \/ \E u, v \in Users, t \in Contents :
       sendMessage(u, v, t) /\ sendMessageRefresh(u, v, t)
         /\ UNCHANGED <<storeVars, hookVars, scored, pageVars, measured>>

SpecMessages == InitMessages /\ [][NextMessages]_vars

\* what the store, the network and the hook do without the user: a select
\* that was sent runs, a response and a realtime event arrive, an update
\* that was sent runs.  Opening and closing a thread and sending a message
\* are up to the users.
SelectRuns ==
  \E i \in 1..MaxFetches :
    fetchMessagesSelect(i)
      /\ UNCHANGED <<storeVars, hookVars, socialVars, scored, pageVars, measured>>
ResponseArrives ==
  \E i \in 1..MaxFetches :
    fetchMessagesResume(i)
      /\ UNCHANGED <<storeVars, hookVars, socialVars, scored, pageVars, measured>>
EventArrives ==
  realtimeInsert /\ UNCHANGED <<storeVars, hookVars, socialVars, scored, pageVars, measured>>
UpdateRuns ==
  \E v \in Users :
    markAsRead(SessionUser, v) /\ UNCHANGED <<storeVars, hookVars, scored, pageVars, measured>>

SpecMessagesFair ==
  /\ InitMessages
  /\ [][NextMessages]_vars
  /\ WF_vars(SelectRuns)
  /\ WF_vars(ResponseArrives)
  /\ WF_vars(EventArrives)
  /\ WF_vars(UpdateRuns)

\* ------------------------------------------------------ the Profile page
MaxCustom == 2
Names == { "chess" }

\* gen_random_uuid() for the n-th row of interests_hierarchy: an id that no
\* row of another table carries
HierarchyId(n) == NumInterests + 1 + n
HierarchyIds == { HierarchyId(n) : n \in 1..MaxCustom }

\* Profile.handleCustomInterest(name): the insert into interests_hierarchy,
\* which fails or returns the new row; then addInterest(newInterest.id),
\* which shows its own toast when its insert is refused and throws nothing;
\* then the "Interest Added" toast
handleCustomInterest(user, name, fails) ==
  /\ Cardinality(interests_hierarchy) < MaxCustom
  /\ LET id == HierarchyId(Cardinality(interests_hierarchy) + 1)
     IN IF fails
        THEN /\ toasts' = << "Error" >>
             /\ created' = << [user |-> user, name |-> name, id |-> 0] >>
             /\ rpc' = <<>>
             /\ UNCHANGED <<interests_hierarchy, profiles, user_locations,
                            user_interests>>
        ELSE /\ interests_hierarchy' = interests_hierarchy \cup
                  { [id |-> id, name |-> name, created_by |-> user] }
             /\ addInterest(user, id)
             /\ toasts' =
                  (IF AddInterestRefused(user, id) THEN << "Error" >> ELSE <<>>)
                    \o << "Interest Added" >>
             /\ created' = << [user |-> user, name |-> name, id |-> id] >>
  /\ UNCHANGED <<currentUserIndex, locationEnabled, locationState, effects, located>>

\* Profile.handleInterestToggle(interestId) for a bubble of BubbleInterests,
\* which lists the rows of interests_hierarchy, or for an id of interests
handleInterestToggle(user, interestId) ==
  /\ IF \E ui \in user_interests : ui.user_id = user /\ ui.interest_id = interestId
     THEN removeInterest(user, interestId)
     ELSE addInterest(user, interestId)
  /\ toasts' =
       IF /\ ~\E ui \in user_interests : ui.user_id = user /\ ui.interest_id = interestId
          /\ AddInterestRefused(user, interestId)
       THEN << "Error" >> ELSE <<>>
  /\ created' = <<>>
  /\ UNCHANGED <<currentUserIndex, locationEnabled, locationState, effects,
                 interests_hierarchy, located>>

\* every user with a profile, no interest chosen and no custom interest yet
InitProfile ==
  /\ profiles = Users
  /\ user_locations = {}
  /\ user_interests = {}
  /\ rpc = <<>>
  /\ InitHook
  /\ InitSocial
  /\ scored = {}
  /\ InitExtra

NextProfile ==
  \/ \E u \in Users, n \in Names, f \in BOOLEAN :
       handleCustomInterest(u, n, f)
         /\ UNCHANGED <<hookVars, socialVars, scored, chatVars, measured>>
  \/ \E u \in Users, i \in interests \cup { h.id : h \in interests_hierarchy } :
       handleInterestToggle(u, i)
         /\ UNCHANGED <<hookVars, socialVars, scored, chatVars, measured>>

SpecProfile == InitProfile /\ [][NextProfile]_vars

\* --------------------------------------------------- the Discovery page
\* Discovery of the signed-in user: useMatching and its auto-fetch, the
\* page's own fetch effect, Pass, Connect, Start Over and enableLocation.

\* findMatches() of the auto-fetch: no filter given
AutoFetchFilters == [maxDistance |-> 0, minSharedInterests |-> 0, limit |-> 0]

\* the filters of Discovery's calls: { maxDistance: 50, minSharedInterests:
\* 1, limit: 20 } with a location, { minSharedInterests: 1, limit: 20 } without
DiscoveryFilters(withLocation) ==
  [maxDistance |-> IF withLocation THEN 50 ELSE 0,
   minSharedInterests |-> 1,
   limit |-> 20]

\* what navigator.geolocation answers a request with: a position, or one of
\* the ways to fail (no geolocation, permission denied, position
\* unavailable, timeout)
GeoOutcomes ==
  { [kind |-> "position", point |-> p] : p \in Points }
    \cup { [kind |-> k, point |-> <<>>] :
             k \in { "unsupported", "denied", "unavailable", "timeout" } }

\* useGeolocation.getCurrentLocation: the value its promise resolves to,
\* locationData for a position and null (<<>>) otherwise; it does not reject
getCurrentLocation(outcome) ==
  IF outcome.kind = "position" THEN << outcome.point >> ELSE <<>>

\* useMatching's effect at mount: findMatches()
autoFetch ==
  /\ effects = 0
  /\ findMatches(AutoFetchFilters)
  /\ effects' = 1
  /\ UNCHANGED <<currentUserIndex, locationEnabled, locationState, toasts,
                 interests_hierarchy, created, located>>

\* Discovery's effect on [user, userInterests, location], once the interests
\* of the user are loaded and again when location has changed
fetchMatches ==
  /\ effects = 1
  /\ locationEnabled' = (locationEnabled \/ locationState # <<>>)
  /\ findMatches(DiscoveryFilters(locationState # <<>>))
  /\ effects' = 2
  /\ UNCHANGED <<currentUserIndex, locationState, toasts, interests_hierarchy,
                 created, located>>

\* Discovery.enableLocation up to the end of its await of
\* requestLocationAndSave: getCurrentLocation, and saveLocationToDatabase
\* when it gave a location
enableLocationRequest(outcome) ==
  /\ effects >= 1
  /\ ~locationEnabled \/ locationState = <<>>
  /\ IF located = <<>> THEN TRUE ELSE located[1].resumed
  /\ IF getCurrentLocation(outcome) # <<>>
     THEN /\ locationState' = getCurrentLocation(outcome)
          /\ saveLocationToDatabase(SessionUser, outcome.point)
          /\ effects' = 1
     ELSE /\ rpc' = <<>>
          /\ UNCHANGED <<locationState, effects, profiles, user_locations,
                         user_interests>>
  /\ located' = << [position |-> getCurrentLocation(outcome),
                    kind |-> outcome.kind, resumed |-> FALSE] >>
  /\ toasts' = <<>>
  /\ UNCHANGED <<currentUserIndex, locationEnabled, interests_hierarchy, created>>

\* Discovery.enableLocation from its await on: setLocationEnabled(true), the
\* toast and findMatches.  Nothing in the try block throws
\* (requestLocationAndSave resolves to null when there is no location,
\* findMatches catches its errors), so the catch block does not run.
enableLocationResume ==
  /\ located # <<>>
  /\ ~located[1].resumed
  /\ locationEnabled' = TRUE
  /\ toasts' = << "Location enabled!" >>
  /\ findMatches(DiscoveryFilters(TRUE))
  /\ located' = << [located[1] EXCEPT !.resumed = TRUE] >>
  /\ UNCHANGED <<currentUserIndex, locationState, effects, interests_hierarchy,
                 created>>

\* the card of matches[currentUserIndex] with its Pass and Connect buttons
\* is drawn
CardShown ==
  /\ ~loading
  /\ error = <<>>
  /\ currentUserIndex < Len(matches)

\* Pass: nextUser
nextUser ==
  /\ CardShown
  /\ currentUserIndex' = currentUserIndex + 1
  /\ toasts' = <<>>
  /\ UNCHANGED <<locationEnabled, locationState, effects, interests_hierarchy,
                 created, located>>

\* Connect: Discovery.handleConnect, the insert and then the toast and
\* nextUser, or the "Connection failed" toast
handleConnect ==
  /\ CardShown
  /\ LET receiver_id == matches[currentUserIndex + 1].user_id
     IN /\ \/ InsertRefused(SessionUser, receiver_id)
           \/ Cardinality(connections) < MaxConnections
        /\ connections' = InsertConnection(SessionUser, receiver_id)
        /\ IF InsertRefused(SessionUser, receiver_id)
           THEN /\ toasts' = << "Connection failed" >>
                /\ UNCHANGED currentUserIndex
           ELSE /\ toasts' = << "Connection sent!" >>
                /\ currentUserIndex' = currentUserIndex + 1
  /\ UNCHANGED <<messages, incomingRequests, hookConnections, responded,
                 requested, sent>>
  /\ UNCHANGED <<locationEnabled, locationState, effects, interests_hierarchy,
                 created, located>>

\* Start Over, drawn when every match was passed
startOver ==
  /\ ~loading
  /\ error = <<>>
  /\ currentUserIndex >= Len(matches)
  /\ Len(matches) > 0
  /\ currentUserIndex' = 0
  /\ toasts' = <<>>
  /\ UNCHANGED <<locationEnabled, locationState, effects, interests_hierarchy,
                 created, located>>

\* every user with a profile and an active location row at one place; the
\* signed-in user and user 2 hold interest 1, user 3 holds no interest
InitDiscoveryTables ==
  /\ profiles = Users
  /\ user_locations =
       { [user_id |-> u, latitude |-> p[1], longitude |-> p[2], is_active |-> TRUE] :
           u \in Users, p \in RankPoints }
  /\ user_interests = [user_id : {SessionUser, 2}, interest_id : {1}]

InitDiscovery ==
  /\ InitDiscoveryTables
  /\ rpc = <<>>
  /\ InitHook
  /\ InitSocial
  /\ scored = {}
  /\ InitExtra

NextDiscovery ==
  \/ autoFetch /\ UNCHANGED <<socialVars, scored, chatVars, measured>>
  \/ fetchMatches /\ UNCHANGED <<socialVars, scored, chatVars, measured>>
  \/ \E g \in GeoOutcomes :
       enableLocationRequest(g)
         /\ UNCHANGED <<hookVars, socialVars, scored, chatVars, measured>>
  \/ enableLocationResume /\ UNCHANGED <<socialVars, scored, chatVars, measured>>
  \/ nextUser /\ UNCHANGED <<storeVars, hookVars, socialVars, scored, chatVars, measured>>
  \/ handleConnect /\ UNCHANGED <<storeVars, hookVars, scored, chatVars, measured>>
  \/ startOver /\ UNCHANGED <<storeVars, hookVars, socialVars, scored, chatVars, measured>>
  \/ \E i \in 1..MaxCalls :
       findMatchesRpc(i) /\ UNCHANGED <<socialVars, scored, chatVars, pageVars, measured>>
  \/ \E i \in 1..MaxCalls :
       findMatchesRpcFails(i)
         /\ UNCHANGED <<socialVars, scored, chatVars, pageVars, measured>>
  \/ \E i \in 1..MaxCalls :
       findMatchesResume(i)
         /\ UNCHANGED <<socialVars, scored, chatVars, pageVars, measured>>

SpecDiscovery == InitDiscovery /\ [][NextDiscovery]_vars

\* ------------------------------------------ the score over given inputs
\* compatibility_score as a function of the two columns it reads: the
\* distances run from 0 to half the circumference of the sphere
\* calculate_distance uses, in 1/Scale km, and NULL; the counts from 0 up.
MaxScored == 3
ScoreDistances ==
  { NULL, 0, 1, Scale, DefaultMaxDistanceKm * Scale, EarthRadius * Pi }
ScoreCounts == 0..(NumInterests + 2)

\* the final SELECT computes the score of one more row
Score(distance, shared_count) ==
  /\ Cardinality(scored) < MaxScored
  /\ scored' = scored \cup
       { [distance_km |-> distance,
          shared_interests_count |-> shared_count,
          compatibility_score |-> compatibility_score(distance, shared_count)] }
  /\ UNCHANGED <<storeVars, hookVars, socialVars, extraVars>>

NextScore == \E d \in ScoreDistances, n \in ScoreCounts : Score(d, n)

SpecScore == Init /\ [][NextScore]_vars

\* ------------------------------------- the distance over given inputs
\* calculate_distance as a function of its four arguments, in 1/CoordScale
\* degree: a pole, the equator and places in between, up to 299 degrees of
\* longitude apart (the fixed-point sine is computed within 32 bits up to
\* half of 318 degrees).
MaxMeasured == 2
Latitudes == { -900, 0, 4, 601 }
Longitudes == { -1500, 0, 5, 1490 }

\* one more evaluation of calculate_distance
Measure(lat1, lon1, lat2, lon2) ==
  /\ Cardinality(measured) < MaxMeasured
  /\ measured' = measured \cup
       { [lat1 |-> lat1, lon1 |-> lon1, lat2 |-> lat2, lon2 |-> lon2,
          distance |-> calculate_distance(lat1, lon1, lat2, lon2)] }
  /\ UNCHANGED <<storeVars, hookVars, socialVars, scored, chatVars, pageVars>>

NextDistance ==
  \E lat1, lat2 \in Latitudes, lon1, lon2 \in Longitudes :
    Measure(lat1, lon1, lat2, lon2)

SpecDistance == Init /\ [][NextDistance]_vars

\* ================================================================ claims
\* What the claims read off a state, stated from the tables alone.
Called == rpc # <<>>
Call == rpc[1]
RankedIds == { Call.ranked[i].user_id : i \in 1..Len(Call.ranked) }
ReturnedIds == { Call.rows[i].user_id : i \in 1..Len(Call.rows) }
RankedRow(c) == Call.ranked[CHOOSE i \in 1..Len(Call.ranked) : Call.ranked[i].user_id = c]
Candidates(requester) == profiles \ {requester}
ActiveRows(u) == { l \in user_locations : l.user_id = u /\ l.is_active }
HasActiveLocation(u) == ActiveRows(u) # {}
InterestIds(u) ==
  { i \in Interests : [user_id |-> u, interest_id |-> i] \in user_interests }
SharedIds(a, b) == InterestIds(a) \cap InterestIds(b)
\* the distance between the active locations of a and b, in 1/Scale km
Between(a, b) ==
  LET la == CHOOSE l \in ActiveRows(a) : TRUE
      lb == CHOOSE l \in ActiveRows(b) : TRUE
  IN calculate_distance(la.latitude, la.longitude, lb.latitude, lb.longitude)
BothLocated(a, b) == HasActiveLocation(a) /\ HasActiveLocation(b)
TooFar(a, b, max_km) == BothLocated(a, b) /\ Between(a, b) > max_km * Scale

\* the three-level order of the result: r1 ranks strictly before r2 when it
\* has the greater key <<score, shared count, nearness>>, an unknown
\* distance being the least near
Nearer(d1, d2) == d1 # NULL /\ (d2 = NULL \/ d1 < d2)
RanksBefore(r1, r2) ==
  IF r1.compatibility_score # r2.compatibility_score
  THEN r1.compatibility_score > r2.compatibility_score
  ELSE IF r1.shared_interests_count # r2.shared_interests_count
  THEN r1.shared_interests_count > r2.shared_interests_count
  ELSE Nearer(r1.distance_km, r2.distance_km)

\* C1: when the requester has no active location row, every other profile
\* that shares at least one interest with the requester is in the result
\* before LIMIT, with distance_km = NULL and
\* compatibility_score = 10 * shared_interests_count.
C1_NoLocationKeepsSharers ==
  (Called /\ ~HasActiveLocation(Call.user_id_param)) =>
    \A c \in Candidates(Call.user_id_param) :
      SharedIds(Call.user_id_param, c) # {} =>
        /\ c \in RankedIds
        /\ RankedRow(c).distance_km = NULL
        /\ RankedRow(c).compatibility_score
             = 10 * Cardinality(SharedIds(Call.user_id_param, c)) * ScoreScale

\* C2: the final WHERE keeps a row of potential_matches exactly when
\* shared_interests_count > 0 or distance_km is known; a candidate with no
\* shared interest and a known, in-range distance is in the result before
\* LIMIT, and a candidate with no shared interest and an unknown distance
\* is not.
C2_RetainedIffSharedOrLocated ==
  Called =>
    LET R == Call.user_id_param
        d == Call.max_distance_km
    IN /\ \A pm \in potential_matches(R, d) :
            (pm.user_id \in RankedIds)
              <=> (pm.shared_interests_count > 0 \/ pm.distance_km # NULL)
       /\ \A c \in Candidates(R) :
            (SharedIds(R, c) = {} /\ BothLocated(R, c) /\ ~TooFar(R, c, d))
              => (c \in RankedIds /\ RankedRow(c).distance_km = Between(R, c))
       /\ \A c \in Candidates(R) :
            (SharedIds(R, c) = {} /\ ~BothLocated(R, c)) => c \notin RankedIds

\* C2 witness: one call ranks a candidate that shares nothing but is within
\* range, and leaves out a candidate that shares nothing and has no location.
C2_Witness ==
  /\ Called
  /\ \E c1, c2 \in Candidates(Call.user_id_param) :
       /\ SharedIds(Call.user_id_param, c1) = {}
       /\ BothLocated(Call.user_id_param, c1)
       /\ Between(Call.user_id_param, c1) > 0
       /\ c1 \in RankedIds
       /\ SharedIds(Call.user_id_param, c2) = {}
       /\ ~HasActiveLocation(c2)
       /\ c2 \notin RankedIds

\* C3: before LIMIT, a candidate is absent from the result only if both the
\* requester and the candidate have an active location and the distance
\* between them exceeds max_distance_km.
C3_AbsentOnlyIfTooFar ==
  Called =>
    \A c \in Candidates(Call.user_id_param) :
      c \notin RankedIds => TooFar(Call.user_id_param, c, Call.max_distance_km)

\* C3 with the final WHERE's exclusion added to it: a candidate is absent
\* only if it is too far, or shares nothing and has an unknown distance.
\* It fails as well, on a requester without an active location.
C3_AbsentOnlyIfTooFarOrUnmatched ==
  Called =>
    \A c \in Candidates(Call.user_id_param) :
      c \notin RankedIds =>
        \/ TooFar(Call.user_id_param, c, Call.max_distance_km)
        \/ (SharedIds(Call.user_id_param, c) = {} /\ ~BothLocated(Call.user_id_param, c))

\* the users in the result before LIMIT of a call with these arguments
SelectedIds(R, d) == { r.user_id : r \in SelectedRows(R, d) }

\* C4: a candidate with no active location is in the result before LIMIT
\* for one value of max_distance_km exactly when it is for every other.
C4_UnlocatedSameForEveryMax ==
  Called =>
    \A c \in Candidates(Call.user_id_param) :
      ~HasActiveLocation(c) =>
        \A d \in MaxDistances :
          (c \in RankedIds) <=> (c \in SelectedIds(Call.user_id_param, d))

\* C4 witness: the call left a located candidate out for its distance and
\* kept a candidate that has no location.
C4_Witness ==
  /\ Called
  /\ \E c1, c2 \in Candidates(Call.user_id_param) :
       /\ ~HasActiveLocation(c1)
       /\ c1 \in RankedIds
       /\ TooFar(Call.user_id_param, c2, Call.max_distance_km)
       /\ c2 \notin RankedIds

\* C5: every returned row with a known distance_km has
\* distance_km <= max_distance_km.
C5_ReturnedWithinMax ==
  Called =>
    \A i \in 1..Len(Call.rows) :
      Call.rows[i].distance_km # NULL =>
        Call.rows[i].distance_km <= Call.max_distance_km * Scale

\* C5 witness: a row is returned with a known distance beyond the smaller
\* limit, by a call that allows it, while the tables hold a candidate that
\* is not returned.
C5_Witness ==
  /\ Called
  /\ \E i \in 1..Len(Call.rows) :
       /\ Call.rows[i].distance_km # NULL
       /\ Call.rows[i].distance_km > DefaultMaxDistanceKm * Scale
  /\ Candidates(Call.user_id_param) \ RankedIds # {}

\* C6: no returned row has user_id equal to the requester's id.
C6_SelfExcluded ==
  Called => Call.user_id_param \notin (ReturnedIds \cup RankedIds)

\* C6 witness: the requester has a profile and an active location, and the
\* call returned rows.
C6_Witness ==
  /\ Called
  /\ Call.user_id_param \in profiles
  /\ HasActiveLocation(Call.user_id_param)
  /\ InterestIds(Call.user_id_param) # {}
  /\ Len(Call.rows) > 0

\* C7: a returned row has compatibility_score = shared_interests_count * 10
\* when distance_km is NULL, and shared_interests_count * 10 + 100 / (1 +
\* distance_km) otherwise (the quotient rounded to 1/ScoreScale: the score's
\* proximity part times (1 + distance_km) is within half a unit's worth of 100).
C7_ScoreFormula ==
  Called =>
    \A i \in 1..Len(Call.rows) :
      LET r == Call.rows[i]
          interestPart == 10 * r.shared_interests_count * ScoreScale
          bonus == r.compatibility_score - interestPart
      IN IF r.distance_km = NULL THEN bonus = 0
         ELSE /\ bonus >= 0
              /\ bonus <= 100 * ScoreScale
              /\ 2 * Abs(bonus * (Scale + r.distance_km) - 100 * ScoreScale * Scale)
                   <= Scale + r.distance_km

\* C7 witness: the call returned a row with a shared interest and a known
\* distance above zero, and a row with an unknown distance.
C7_Witness ==
  /\ Called
  /\ \E i, j \in 1..Len(Call.rows) :
       /\ Call.rows[i].distance_km # NULL
       /\ Call.rows[i].distance_km > 0
       /\ Call.rows[i].shared_interests_count > 0
       /\ Call.rows[j].distance_km = NULL

\* C8: no two consecutive returned rows are out of the three-level order
\* (score descending, then shared_interests_count descending, then
\* distance_km ascending with NULL last).
C8_RowsInOrder ==
  Called =>
    /\ \A i \in 1..(Len(Call.rows) - 1) : ~RanksBefore(Call.rows[i + 1], Call.rows[i])
    /\ \A i \in 1..(Len(Call.ranked) - 1) :
         ~RanksBefore(Call.ranked[i + 1], Call.ranked[i])

\* C8 witness: two rows are returned, the first with the greater score.
C8_Witness ==
  /\ Called
  /\ Len(Call.rows) >= 2
  /\ Call.rows[1].compatibility_score > Call.rows[2].compatibility_score

\* C9: an invocation that follows another with the same arguments, the
\* tables unchanged between them, returns the same rows in the same order.
C9_RepeatReturnsSameRows ==
  [][ ( /\ Called
        /\ rpc' # <<>>
        /\ rpc'[1].user_id_param = Call.user_id_param
        /\ rpc'[1].max_distance_km = Call.max_distance_km
        /\ rpc'[1].limit_results = Call.limit_results
        /\ UNCHANGED <<profiles, user_locations, user_interests>> )
      => rpc'[1].rows = Call.rows ]_vars

\* C10: with n rows selected, a call returns Min(limit_results, n) of them,
\* and no selected row that is left out ranks strictly before a returned one.
C10_LimitAfterSort ==
  Called =>
    LET selected == SelectedRows(Call.user_id_param, Call.max_distance_km)
        returned == { Call.rows[i] : i \in 1..Len(Call.rows) }
    IN /\ Len(Call.rows) = Min(Call.limit_results, Cardinality(selected))
       /\ Cardinality(returned) = Len(Call.rows)
       /\ returned \subseteq selected
       /\ \A q \in selected \ returned : \A r \in returned : ~RanksBefore(q, r)

\* C10 witness: two rows of different rank were selected and the call, with
\* limit_results = 1, returned one.
C10_Witness ==
  /\ Called
  /\ Call.limit_results = 1
  /\ Len(Call.rows) = 1
  /\ \E q \in SelectedRows(Call.user_id_param, Call.max_distance_km) :
       RanksBefore(Call.rows[1], q)


\* C11: a call with max_distance_km <= 0 or limit_results < 1 is rejected
\* with an error and yields no rows (stated for any error at all, not only
\* one named InvalidArgument).
C11_InvalidArgumentsRejected ==
  (Called /\ (Call.max_distance_km <= 0 \/ Call.limit_results < 1))
    => (Call.error # <<>> /\ Call.rows = <<>>)


\* C12: when the requester has no row in profiles, the invocation returns no
\* rows and no error, whatever location and interest rows exist for that id.
C12_UnknownRequesterEmpty ==
  (Called /\ Call.user_id_param \notin profiles)
    => (Call.rows = <<>> /\ Call.error = <<>>)


\* C13: in every row of the result, shared_interests_count is the number of
\* interest ids that both the candidate and the requester hold in
\* user_interests; it is 0 when they hold none in common and never NULL.
C13_SharedCountIsIntersection ==
  Called =>
    \A r \in { Call.ranked[i] : i \in 1..Len(Call.ranked) }
               \cup { Call.rows[i] : i \in 1..Len(Call.rows) } :
      LET both == { k \in WideInterests :
                      /\ [user_id |-> r.user_id, interest_id |-> k] \in user_interests
                      /\ [user_id |-> Call.user_id_param, interest_id |-> k]
                           \in user_interests }
      IN /\ r.shared_interests_count # NULL
         /\ r.shared_interests_count = Cardinality(both)

\* a result with a candidate that shares two interests and a candidate that
\* shares none
C13_Witness ==
  /\ Called
  /\ \E i, j \in 1..Len(Call.rows) :
       /\ Call.rows[i].shared_interests_count = 2
       /\ Call.rows[j].shared_interests_count = 0


\* C14: the score is monotonic in both inputs: at the same distance, known
\* or unknown, a larger shared_interests_count never gives a smaller score;
\* at the same shared_interests_count, a smaller known distance_km >= 0 never
\* gives a smaller score.
C14_ScoreMonotonic ==
  \A a, b \in scored :
    /\ (a.distance_km = b.distance_km
        /\ a.shared_interests_count >= b.shared_interests_count)
         => a.compatibility_score >= b.compatibility_score
    /\ (a.shared_interests_count = b.shared_interests_count
        /\ a.distance_km # NULL /\ b.distance_km # NULL
        /\ 0 <= a.distance_km /\ a.distance_km <= b.distance_km)
         => a.compatibility_score >= b.compatibility_score

\* three scores computed: two at one distance with different counts, two at
\* one count with different known distances, each pair with different scores
C14_Witness ==
  \E a, b, c \in scored :
    /\ a.distance_km = b.distance_km
    /\ a.shared_interests_count > b.shared_interests_count
    /\ a.compatibility_score > b.compatibility_score
    /\ c.shared_interests_count = b.shared_interests_count
    /\ c.distance_km # NULL /\ b.distance_km # NULL
    /\ c.distance_km < b.distance_km
    /\ c.compatibility_score > b.compatibility_score


\* C15: a findMatches call with minSharedInterests = m > 0 whose RPC succeeds
\* has made exactly one RPC request and leaves in matches exactly the rows of
\* that RPC result with shared_interests_count >= m, in the order of the
\* result: a subsequence of the already limited result, not ranked or
\* fetched again.
C15_StoresFilteredRpcRows ==
  (done # <<>> /\ done[1].error = <<>> /\ done[1].filters.minSharedInterests > 0)
    => LET data == done[1].data
           kept == { i \in 1..Len(data) :
                       data[i].shared_interests_count
                         >= done[1].filters.minSharedInterests }
       IN /\ done[1].rpcs = 1
          /\ Len(data) <= OrDefault(done[1].filters.limit, DefaultLimitResults)
          /\ Len(matches) = Cardinality(kept)
          /\ \A i \in kept :
               matches[Cardinality({ j \in kept : j <= i })] = data[i]

\* a call with m = 2 has ended: the RPC returned two rows, the first with two
\* shared interests and the second with one, and only the first is stored
C15_Witness ==
  /\ done # <<>>
  /\ done[1].error = <<>>
  /\ done[1].filters.minSharedInterests = 2
  /\ Len(done[1].data) = 2
  /\ done[1].data[2].shared_interests_count = 1
  /\ matches = << done[1].data[1] >>


\* C17: a findMatches call whose RPC failed leaves error non-null and
\* loading false, has made one RPC request and no second one, and leaves
\* matches as it was before the call ended: no fallback ranking is stored.
C17_FailureSurfaced ==
  (done # <<>> /\ done[1].error # <<>>)
    => /\ error # <<>>
       /\ loading = FALSE
       /\ done[1].rpcs = 1
       /\ matches = done[1].before

\* a call has failed after an earlier call had stored rows: the rows stay
C17_Witness ==
  /\ done # <<>>
  /\ done[1].error # <<>>
  /\ matches # <<>>
  /\ error = done[1].error


\* C16: an invocation of find_potential_matches changes and creates no row
\* of profiles, user_locations, user_interests, connections and messages;
\* so however invocations and writes interleave, the rows an invocation has
\* returned are rows the function gives on the tables as they stand.
C16_ReadOnly ==
  /\ [][rpc' # <<>> =>
          UNCHANGED <<profiles, user_locations, user_interests,
                      connections, messages>>]_vars
  /\ [](Called =>
          \E scan \in Perms(SelectedRows(Call.user_id_param, Call.max_distance_km)) :
            /\ Call.ranked = SortRows(scan)
            /\ Call.rows = OrderAndLimit(scan, Call.limit_results))

\* an invocation for a located requester has returned two rows
C16_Witness ==
  /\ Called
  /\ HasActiveLocation(Call.user_id_param)
  /\ Len(Call.rows) = 2


\* C18: a connection goes from pending to accepted or rejected only by an
\* action of its receiver: when a response has just been written by a user
\* and the row went from pending to accepted or rejected, that user is the
\* row's receiver.
C18_OnlyReceiverDecides ==
  (/\ responded # <<>>
   /\ responded[1].before = "pending"
   /\ StatusOf(responded[1].id) \in Responses)
    => responded[1].user =
         (CHOOSE c \in connections : c.id = responded[1].id).receiver_id

\* C19: a connection that is accepted or rejected keeps that status in every
\* later state, whatever response handlers run from stale lists.
C19_DecisionFinal ==
  [][\A c \in connections : c.status \in Responses => c \in connections']_vars


\* C20: sendMessage stores a message row only if, at the insert, a connection
\* with status accepted exists between sender and receiver, in either
\* direction; otherwise it returns false and the table messages is as before.
C20_MessageNeedsAcceptedConnection ==
  sent # <<>> =>
    LET s == sent[1]
        linked == \E c \in connections :
                    /\ c.status = "accepted"
                    /\ {c.requester_id, c.receiver_id} = {s.user, s.receiverId}
        stored == messages \ s.before
    IN /\ stored # {} => linked
       /\ ~linked => (~s.returned /\ messages = s.before)
       /\ \A m \in stored : m.sender_id = s.user /\ m.receiver_id = s.receiverId
       /\ s.returned <=> stored # {}

\* a message sent by the receiver of an accepted connection to its requester
\* is stored
C20_Witness ==
  /\ sent # <<>>
  /\ sent[1].returned
  /\ \E m \in messages, c \in connections :
       /\ m \notin sent[1].before
       /\ c.status = "accepted"
       /\ c.receiver_id = m.sender_id
       /\ c.requester_id = m.receiver_id


\* C21: the table connections holds at most one row per ordered pair
\* (requester_id, receiver_id); a connection request sent for a pair that
\* has a row fails and leaves the table as it was.
C21_OneRowPerPair ==
  /\ \A c1, c2 \in connections :
       (c1.requester_id = c2.requester_id /\ c1.receiver_id = c2.receiver_id)
         => c1 = c2
  /\ (/\ requested # <<>>
      /\ \E c \in requested[1].before :
           /\ c.requester_id = requested[1].user
           /\ c.receiver_id = requested[1].receiverId)
       => (~requested[1].returned /\ connections = requested[1].before)

\* a request was sent again for a pair whose row is accepted, and refused
C21_Witness ==
  /\ requested # <<>>
  /\ ~requested[1].returned
  /\ \E c \in connections :
       /\ c.requester_id = requested[1].user
       /\ c.receiver_id = requested[1].receiverId
       /\ c.status = "accepted"


\* ---------------------------------------------------------------- C22
\* C22: read_at of a message is set at most once and only by the message's
\* receiver: a step never changes a row whose read_at is set, and a row
\* whose read_at gets set is one sent to the user whose markAsRead ran.
C22_ReadAtOnce ==
  [][\A m \in messages :
       /\ m.read_at # NULL => m \in messages'
       /\ (m.read_at = NULL /\ m \notin messages') =>
            /\ marked' # <<>>
            /\ marked'[1].user = m.receiver_id
            /\ marked'[1].senderId = m.sender_id
            /\ [m EXCEPT !.read_at = clock'] \in messages']_vars

\* a second markAsRead by the receiver has run on a row that was read
C22_Witness ==
  /\ marked # <<>>
  /\ \E m \in marked[1].before :
       /\ m.read_at # NULL
       /\ m.read_at < clock
       /\ m.receiver_id = marked[1].user
       /\ m.sender_id = marked[1].senderId
       /\ m \in messages


\* ---------------------------------------------------------------- C23
\* the rows of user_locations of a user with is_active = true
ActiveLocations(u) == { l \in user_locations : l.user_id = u /\ l.is_active }

\* C23: each user has at most one user_locations row with is_active = true,
\* and the distances of a ranking are those between the active row of the
\* requester and the active row of each candidate, NULL where one is missing.
C23_OneActiveLocation ==
  /\ \A u \in Users : Cardinality(ActiveLocations(u)) <= 1
  /\ Called =>
       \A i \in 1..Len(Call.ranked) :
         LET a == ActiveLocations(Call.user_id_param)
             b == ActiveLocations(Call.ranked[i].user_id)
         IN Call.ranked[i].distance_km =
              IF a = {} \/ b = {} THEN NULL
              ELSE LET from == CHOOSE l \in a : TRUE
                       to == CHOOSE l \in b : TRUE
                   IN calculate_distance(from.latitude, from.longitude,
                                         to.latitude, to.longitude)

\* a ranking that holds a candidate at a distance from the requester and a
\* candidate whose location was cleared
C23_Witness ==
  /\ Called
  /\ \E i, j \in 1..Len(Call.ranked) :
       /\ Call.ranked[i].distance_km # NULL
       /\ Call.ranked[i].distance_km > 0
       /\ Call.ranked[j].distance_km = NULL
       /\ \E l \in user_locations :
            l.user_id = Call.ranked[j].user_id /\ ~l.is_active


\* ---------------------------------------------------------------- C24
\* C24: after handleCustomInterest(name) has shown the "Interest Added"
\* confirmation, a user_interests row links the user to the interest that
\* was created.
C24_CustomInterestLinked ==
  (/\ created # <<>>
   /\ \E k \in 1..Len(toasts) : toasts[k] = "Interest Added")
    => \E ui \in user_interests :
         /\ ui.user_id = created[1].user
         /\ ui.interest_id = created[1].id


\* ---------------------------------------------------------------- C25
\* C25: calculate_distance is symmetric: the evaluation from A to B and the
\* evaluation from B to A give the same distance.
C25_DistanceSymmetric ==
  \A m, n \in measured :
    (/\ m.lat1 = n.lat2 /\ m.lon1 = n.lon2
     /\ m.lat2 = n.lat1 /\ m.lon2 = n.lon1)
      => m.distance = n.distance

\* both directions evaluated between two places that differ in latitude
\* and in longitude
C25_Witness ==
  \E m, n \in measured :
    /\ m.lat1 = n.lat2 /\ m.lon1 = n.lon2
    /\ m.lat2 = n.lat1 /\ m.lon2 = n.lon1
    /\ m.lat1 # m.lat2 /\ m.lon1 # m.lon2
    /\ Abs(m.lat1) # Abs(m.lat2)
    /\ m.distance > 0


\* ---------------------------------------------------------------- C26
\* the message with this id is displayed in the open thread with its sender
DisplayedFromSender(id) ==
  /\ recipientId # 0
  /\ \E k \in 1..Len(threadMessages) : threadMessages[k] = id
  /\ \E m \in messages : m.id = id /\ m.sender_id = recipientId

\* C26: while the thread with sender S is open, every message from S in the
\* displayed list eventually has read_at set in the store (or the thread
\* is closed before that).
C26_DisplayedEventuallyRead ==
  \A id \in 1..MaxMessages :
    DisplayedFromSender(id) ~>
      (recipientId = 0 \/ \E m \in messages : m.id = id /\ m.read_at # NULL)


\* ---------------------------------------------------------------- C28
\* C28: the messages list of an open thread never contains the same message
\* id twice.
C28_NoDuplicateIds ==
  \A j, k \in 1..Len(threadMessages) :
    threadMessages[j] = threadMessages[k] => j = k


\* ---------------------------------------------------------------- C27
\* C27: when the calls of findMatches have all ended and the one issued
\* last was Discovery's (minSharedInterests = 1), the matches stored are
\* those of that call: every match shown has shared_interests_count >= 1.
C27_LastCallWins ==
  (effects = 2 /\ calls = <<>> /\ error = <<>>)
    => \A i \in 1..Len(matches) : matches[i].shared_interests_count >= 1

\* ---------------------------------------------------------------- C29
\* C29: currentUserIndex never exceeds matches.length.
C29_IndexWithinMatches == currentUserIndex <= Len(matches)

\* ---------------------------------------------------------------- C30
\* C30: when enableLocation goes on from requestLocationAndSave, it sets
\* locationEnabled and announces "Location enabled" if a location was
\* obtained; otherwise it reports "Location access denied" and leaves
\* locationEnabled as it was.
C30_EnabledOnlyWithLocation ==
  [][(/\ located # <<>>
      /\ located' # <<>>
      /\ ~located[1].resumed
      /\ located'[1].resumed)
       => IF located[1].position # <<>>
          THEN locationEnabled' /\ toasts' = << "Location enabled!" >>
          ELSE /\ locationEnabled' = locationEnabled
               /\ toasts' = << "Location access denied" >>]_vars

====
